---------------------------- MODULE Spec2Model ----------------------------
(***************************************************************************)
(* envy: deserialising a flat iterable of (String, String) pairs into a    *)
(* typed record (src/src/lib.rs, src/src/error.rs).                        *)
(*                                                                         *)
(* Strings are sequences of one-character strings, so that to_lowercase,   *)
(* starts_with, trim_start_matches, split and str::parse are computed      *)
(* character by character.  A decode call is a state machine: one step per *)
(* entry the map visitor pulls from the (optionally prefix-filtered)       *)
(* iterator, and a final step when the iterator is exhausted.              *)
(***************************************************************************)
EXTENDS Integers, Sequences, FiniteSets, TLC

\* prefix: the prefix of a Prefixed decoder, or none (from_iter)
\* target: the type asked for;  input: the pairs of the caller's iterable
\* pos: how many of them the iterator has yielded
\* slots: the visitor's partial value;  result: the call's result, once set
VARIABLES prefix, target, input, pos, slots, result

vars == <<prefix, target, input, pos, slots, result>>

(***************************************************************************)
(* Characters and strings                                                  *)
(***************************************************************************)
UpperChars == <<"A","B","C","D","E","F","G","H","I","J","K","L","M",
                "N","O","P","Q","R","S","T","U","V","W","X","Y","Z">>

LowerChars == <<"a","b","c","d","e","f","g","h","i","j","k","l","m",
                "n","o","p","q","r","s","t","u","v","w","x","y","z">>

DigitChars == <<"0","1","2","3","4","5","6","7","8","9">>

\* char::to_lowercase on the ASCII range
ToLowerChar(c) ==
    IF \E i \in 1..26 : UpperChars[i] = c
    THEN LowerChars[CHOOSE i \in 1..26 : UpperChars[i] = c]
    ELSE c

\* str::to_lowercase
to_lowercase(s) == [i \in 1..Len(s) |-> ToLowerChar(s[i])]

\* str::starts_with
starts_with(s, p) == Len(p) <= Len(s) /\ SubSeq(s, 1, Len(p)) = p

\* str::trim_start_matches: removes the pattern for as long as it leads
RECURSIVE trim_start_matches(_, _)
trim_start_matches(s, p) ==
    IF p # <<>> /\ starts_with(s, p)
    THEN trim_start_matches(SubSeq(s, Len(p) + 1, Len(s)), p)
    ELSE s

\* str::split on one character: the pieces between the separators
RECURSIVE split(_, _)
split(s, sep) ==
    IF \E i \in 1..Len(s) : s[i] = sep
    THEN LET i == CHOOSE j \in 1..Len(s) :
                      s[j] = sep /\ \A h \in 1..(j - 1) : s[h] # sep
         IN  <<SubSeq(s, 1, i - 1)>> \o split(SubSeq(s, i + 1, Len(s)), sep)
    ELSE <<s>>

IsDigit(c) == \E i \in 1..10 : DigitChars[i] = c

DigitVal(c) == (CHOOSE i \in 1..10 : DigitChars[i] = c) - 1

(***************************************************************************)
(* str::parse for the kinds of forward_parsed_values                       *)
(***************************************************************************)
Parsed(v) == [ok |-> TRUE, v |-> v]

ParseErr(e) == [ok |-> FALSE, e |-> e]

\* <bool as FromStr>::from_str (the message's backquotes are written as
\* apostrophes here)
parse_bool(s) ==
    IF s = <<"t","r","u","e">> THEN Parsed(TRUE)
    ELSE IF s = <<"f","a","l","s","e">> THEN Parsed(FALSE)
    ELSE ParseErr("provided string was not 'true' or 'false'")

Pow2(n) == 2 ^ n

\* Overflow is decided for the 8- and 16-bit kinds.  The inputs hold numbers
\* of fewer than ten digits, all of which fit the 32- and 64-bit kinds.
IntMin(signed, bits) == IF signed THEN -Pow2(bits - 1) ELSE 0

IntMax(signed, bits) == IF signed THEN Pow2(bits - 1) - 1 ELSE Pow2(bits) - 1

TooLarge(n, signed, bits) == bits < 32 /\ n > IntMax(signed, bits)

TooSmall(n, signed, bits) == bits < 32 /\ n < IntMin(signed, bits)

\* the digit loop of from_str_radix: checked_mul, then checked_add/sub
RECURSIVE parse_digits(_, _, _, _, _, _)
parse_digits(s, i, acc, positive, signed, bits) ==
    IF i > Len(s) THEN Parsed(acc)
    ELSE IF ~IsDigit(s[i]) THEN ParseErr("invalid digit found in string")
    ELSE LET nxt == IF positive THEN acc * 10 + DigitVal(s[i])
                    ELSE acc * 10 - DigitVal(s[i])
         IN  IF positive /\ TooLarge(nxt, signed, bits)
             THEN ParseErr("number too large to fit in target type")
             ELSE IF ~positive /\ TooSmall(nxt, signed, bits)
             THEN ParseErr("number too small to fit in target type")
             ELSE parse_digits(s, i + 1, nxt, positive, signed, bits)

\* <uN/iN as FromStr>::from_str
parse_int(s, signed, bits) ==
    IF s = <<>> THEN ParseErr("cannot parse integer from empty string")
    ELSE IF s = <<"+">> \/ s = <<"-">>
    THEN ParseErr("invalid digit found in string")
    ELSE IF s[1] = "+" THEN parse_digits(s, 2, 0, TRUE, signed, bits)
    ELSE IF s[1] = "-" /\ signed THEN parse_digits(s, 2, 0, FALSE, signed, bits)
    ELSE parse_digits(s, 1, 0, TRUE, signed, bits)


AllDigits(s) == \A i \in 1..Len(s) : IsDigit(s[i])

RECURSIVE DigitsVal(_)
DigitsVal(s) ==
    IF s = <<>> THEN 0
    ELSE DigitsVal(SubSeq(s, 1, Len(s) - 1)) * 10 + DigitVal(s[Len(s)])

\* a decimal mantissa and exponent without trailing zeros in the mantissa
RECURSIVE Normalised(_, _)
Normalised(m, e) ==
    IF m = 0 THEN [mant |-> 0, exp |-> 0]
    ELSE IF m % 10 = 0 THEN Normalised(m \div 10, e + 1)
    ELSE [mant |-> m, exp |-> e]

\* the decimal part of dec2flt: digits, an optional point, digits, and an
\* optional exponent; at least one digit, and nothing left over.  A parsed
\* float is kept as the decimal number it denotes.
parse_decimal(neg, s) ==
    LET epos  == IF \E i \in 1..Len(s) : s[i] \in {"e", "E"}
                 THEN CHOOSE i \in 1..Len(s) :
                          s[i] \in {"e", "E"}
                          /\ \A h \in 1..(i - 1) : s[h] \notin {"e", "E"}
                 ELSE Len(s) + 1
        mts   == SubSeq(s, 1, epos - 1)
        ex    == SubSeq(s, epos + 1, Len(s))
        parts == split(mts, ".")
        ip    == parts[1]
        fp    == IF Len(parts) = 2 THEN parts[2] ELSE <<>>
        exneg == ex # <<>> /\ ex[1] = "-"
        exd   == IF ex # <<>> /\ ex[1] \in {"+", "-"}
                 THEN SubSeq(ex, 2, Len(ex)) ELSE ex
        mok   == Len(parts) <= 2 /\ AllDigits(ip) /\ AllDigits(fp)
                 /\ Len(ip) + Len(fp) >= 1
        eok   == epos > Len(s) \/ (exd # <<>> /\ AllDigits(exd))
        ev    == IF epos > Len(s) THEN 0
                 ELSE IF exneg THEN -DigitsVal(exd) ELSE DigitsVal(exd)
    IN  IF mok /\ eok
        THEN Parsed([neg |-> neg /\ DigitsVal(ip \o fp) # 0]
                    @@ Normalised(DigitsVal(ip \o fp), ev - Len(fp)))
        ELSE ParseErr("invalid float literal")

\* <f32/f64 as FromStr>::from_str
parse_float(s) ==
    IF s = <<>> THEN ParseErr("cannot parse float from empty string")
    ELSE LET neg  == s[1] = "-"
             rest == IF s[1] \in {"+", "-"} THEN SubSeq(s, 2, Len(s)) ELSE s
             low  == to_lowercase(rest)
         IN  IF rest = <<>> THEN ParseErr("invalid float literal")
             ELSE IF low = <<"n","a","n">> THEN Parsed([special |-> "nan"])
             ELSE IF low = <<"i","n","f">>
                     \/ low = <<"i","n","f","i","n","i","t","y">>
             THEN Parsed([special |-> "inf", neg |-> neg])
             ELSE parse_decimal(neg, rest)

(***************************************************************************)
(* Target shapes (what the Deserialize impl of the target type asks for)   *)
(***************************************************************************)
KString == [k |-> "string"]

KBool == [k |-> "bool"]

KInt(ty, signed, bits) == [k |-> "int", ty |-> ty, signed |-> signed, bits |-> bits]

KFloat(ty) == [k |-> "float", ty |-> ty]

KOption(of) == [k |-> "option", of |-> of]

KSeq(of) == [k |-> "seq", of |-> of]

KNewtype(of) == [k |-> "newtype", of |-> of]

KEnum(name, variants) == [k |-> "enum", name |-> name, variants |-> variants]

KStruct(name, fields) == [k |-> "struct", name |-> name, fields |-> fields]

KMap == [k |-> "map"]

U8 == KInt("u8", FALSE, 8)

U16 == KInt("u16", FALSE, 16)

U32 == KInt("u32", FALSE, 32)

U64 == KInt("u64", FALSE, 64)

I8 == KInt("i8", TRUE, 8)

I16 == KInt("i16", TRUE, 16)

I32 == KInt("i32", TRUE, 32)

I64 == KInt("i64", TRUE, 64)

F32 == KFloat("f32")

F64 == KFloat("f64")

\* a field of a record: no default, or the value its default supplies
Field(name, kind) == [name |-> name, kind |-> kind, dflt |-> [has |-> FALSE]]

FieldDefault(name, kind, v) ==
    [name |-> name, kind |-> kind, dflt |-> [has |-> TRUE, v |-> v]]

(***************************************************************************)
(* Errors (src/src/error.rs).  A Custom message is the sequence of the     *)
(* pieces that format! joins: literal text and interpolated strings.       *)
(***************************************************************************)
Lit(text) == [lit |-> text]

Str(s) == [str |-> s]

\* <Error as serde::de::Error>::custom
Custom(msg) == [tag |-> "Custom", msg |-> msg]

\* <Error as serde::de::Error>::missing_field
MissingValue(field) == [tag |-> "MissingValue", field |-> field]

\* serde::de::Error::duplicate_field, through custom
duplicate_field(field) == Custom(<<Lit("duplicate field '"), Str(field), Lit("'")>>)

\* serde::de::Error::unknown_variant, through custom
unknown_variant(v, variants) ==
    Custom(<<Lit("unknown variant '"), Str(v), Lit("', expected one of "),
             [variants |-> variants]>>)

\* serde::de::Error::invalid_type(Unexpected::Str(v), expected), through custom
invalid_type(v, expected) ==
    Custom(<<Lit("invalid type: string "), Str(v), Lit(", expected "),
             Lit(expected)>>)

\* the message of forward_parsed_values
parse_failure(e, value, key) ==
    Custom(<<Lit(e), Lit(" while parsing value '"), Str(value),
             Lit("' provided by "), Str(key)>>)

Ok(v) == [tag |-> "Ok", value |-> v]

IsOk(r) == r.tag = "Ok"

(***************************************************************************)
(* impl Deserializer for Val: Val(key, value) against a target shape       *)
(***************************************************************************)
\* forward_parsed_values: parse, then hand the parsed value to the visitor
forward_parsed_values(key, value, kind) ==
    LET p == CASE kind.k = "bool"  -> parse_bool(value)
               [] kind.k = "int"   -> parse_int(value, kind.signed, kind.bits)
               [] kind.k = "float" -> parse_float(value)
    IN  IF p.ok THEN Ok(p.v) ELSE parse_failure(p.e, value, key)

\* a variant identifier that compares without regard to letter case
variant_identifier_ignoring_case(value, variants) ==
    IF \E i \in 1..Len(variants) : variants[i] = to_lowercase(value)
    THEN Ok([variant |-> to_lowercase(value)])
    ELSE unknown_variant(value, variants)

\* the derived variant identifier of a unit-variant enum: visit_str matches
\* the declared (renamed) tags exactly
variant_identifier(value, variants) ==
    IF \E i \in 1..Len(variants) : variants[i] = value
    THEN Ok([variant |-> value])
    ELSE unknown_variant(value, variants)

\* Val::deserialize_enum: visit_enum on the value's string deserializer
Val_deserialize_enum(key, value, kind) == variant_identifier(value, kind.variants)

\* a deserialize_any whose visitor takes the string whatever the target
Val_deserialize_any_taking_strings(key, value, kind) == Ok(value)

\* Val::deserialize_any: visit_string(value); a visitor that takes no
\* string (a record, a map) answers invalid_type
Val_deserialize_any(key, value, kind) ==
    CASE kind.k = "string" -> Ok(value)
      [] kind.k = "struct" -> invalid_type(value, "struct " \o kind.name)
      [] kind.k = "map"    -> invalid_type(value, "a map")

RECURSIVE Val_deserialize(_, _, _)
RECURSIVE visit_seq(_, _, _, _)

\* the Vec visitor over SeqDeserializer: next_element until the first error
visit_seq(key, pieces, elem, acc) ==
    IF pieces = <<>> THEN Ok(acc)
    ELSE LET r == Val_deserialize(key, pieces[1], elem)
         IN  IF IsOk(r)
             THEN visit_seq(key, Tail(pieces), elem, Append(acc, r.value))
             ELSE r

\* a deserialize_seq that takes the empty string for the empty sequence
Val_deserialize_seq_empty_for_empty(key, value, kind) ==
    IF value = <<>> THEN Ok(<<>>)
    ELSE visit_seq(key, split(value, ","), kind.of, <<>>)

\* Val::deserialize_seq: split on ',', every piece a Val with the same key
Val_deserialize_seq(key, value, kind) ==
    visit_seq(key, split(value, ","), kind.of, <<>>)

\* a deserialize_option that turns a value it cannot parse into None
Val_deserialize_option_none_on_error(key, value, kind) ==
    LET r == Val_deserialize(key, value, kind.of)
    IN  IF IsOk(r) THEN Ok([some |-> TRUE, v |-> r.value]) ELSE Ok([some |-> FALSE])

\* Val::deserialize_option: visit_some(self)
Val_deserialize_option(key, value, kind) ==
    LET r == Val_deserialize(key, value, kind.of)
    IN  IF IsOk(r) THEN Ok([some |-> TRUE, v |-> r.value]) ELSE r

\* Val::deserialize_newtype_struct: visit_newtype_struct(self)
Val_deserialize_newtype_struct(key, value, kind) ==
    LET r == Val_deserialize(key, value, kind.of)
    IN  IF IsOk(r) THEN Ok([newtype |-> r.value]) ELSE r

\* T::deserialize(Val(key, value)) for a field of shape kind
Val_deserialize(key, value, kind) ==
    CASE kind.k \in {"bool", "int", "float"} -> forward_parsed_values(key, value, kind)
      [] kind.k = "seq"     -> Val_deserialize_seq(key, value, kind)
      [] kind.k = "option"  -> Val_deserialize_option(key, value, kind)
      [] kind.k = "newtype" -> Val_deserialize_newtype_struct(key, value, kind)
      [] kind.k = "enum"    -> Val_deserialize_enum(key, value, kind)
      [] OTHER              -> Val_deserialize_any(key, value, kind)

(***************************************************************************)
(* The pair stream: Prefixed::from_iter's filter_map, then Vars::next      *)
(***************************************************************************)
NoPrefix == [some |-> FALSE]

Prefixed(p) == [some |-> TRUE, p |-> p]

Pair(k, v) == [k |-> k, v |-> v]

\* the filter_map closure of Prefixed::from_iter; from_iter passes every pair
filter_map(pfx, kv) ==
    IF ~pfx.some THEN [some |-> TRUE, k |-> kv.k, v |-> kv.v]
    ELSE IF starts_with(kv.k, pfx.p)
    THEN [some |-> TRUE, k |-> trim_start_matches(kv.k, pfx.p), v |-> kv.v]
    ELSE [some |-> FALSE]

\* the position in it of the next pair the filter lets through, or 0
NextIndex(pfx, it) ==
    IF \E j \in 1..Len(it) : filter_map(pfx, it[j]).some
    THEN CHOOSE j \in 1..Len(it) :
             /\ filter_map(pfx, it[j]).some
             /\ \A h \in 1..(j - 1) : ~filter_map(pfx, it[h]).some
    ELSE 0

\* a slip in Vars::next: the value keeps the lower-cased key
Vars_next_lowercased_key(kv) ==
    [name |-> to_lowercase(kv.k), key |-> to_lowercase(kv.k), value |-> kv.v]

\* Vars::next: (VarName(k.to_lowercase()), Val(k, v))
Vars_next(kv) == [name |-> to_lowercase(kv.k), key |-> kv.k, value |-> kv.v]

(***************************************************************************)
(* Targets: a record (derived Deserialize) or HashMap<String, String>      *)
(***************************************************************************)
Record(name, fields) == [shape |-> "struct", name |-> name, fields |-> fields]

StringMap == [shape |-> "map"]

Unset == [set |-> FALSE]

Set(v) == [set |-> TRUE, v |-> v]

\* the derived field identifier: the position of the field named name, or 0
FieldIndex(fields, name) ==
    IF \E i \in 1..Len(fields) : fields[i].name = name
    THEN CHOOSE i \in 1..Len(fields) : fields[i].name = name
    ELSE 0

\* a visit_map loop that skips a value it cannot deserialize
struct_visit_entry_skipping_errors(fields, sl, e) ==
    LET i == FieldIndex(fields, e.name)
    IN  IF i = 0 THEN [slots |-> sl, err |-> FALSE]
        ELSE IF sl[i].set
        THEN [slots |-> sl, err |-> TRUE, error |-> duplicate_field(fields[i].name)]
        ELSE LET r == Val_deserialize(e.key, e.value, fields[i].kind)
             IN  IF IsOk(r)
                 THEN [slots |-> [sl EXCEPT ![i] = Set(r.value)], err |-> FALSE]
                 ELSE [slots |-> sl, err |-> FALSE]

\* one turn of the derived visit_map loop: an unknown key is skipped, a key
\* seen before is a duplicate, otherwise the value is deserialized
struct_visit_entry(fields, sl, e) ==
    LET i == FieldIndex(fields, e.name)
    IN  IF i = 0 THEN [slots |-> sl, err |-> FALSE]
        ELSE IF sl[i].set
        THEN [slots |-> sl, err |-> TRUE, error |-> duplicate_field(fields[i].name)]
        ELSE LET r == Val_deserialize(e.key, e.value, fields[i].kind)
             IN  IF IsOk(r)
                 THEN [slots |-> [sl EXCEPT ![i] = Set(r.value)], err |-> FALSE]
                 ELSE [slots |-> sl, err |-> TRUE, error |-> r]

\* the value a field ends with when it is not missing
FieldValue(fields, sl, i) ==
    IF sl[i].set THEN sl[i].v
    ELSE IF fields[i].dflt.has THEN fields[i].dflt.v
    ELSE [some |-> FALSE]

\* a finish that looks for missing fields from the last field backwards
struct_finish_backwards(fields, sl, i, acc) ==
    LET miss == {k \in 1..Len(fields) :
                    ~sl[k].set /\ ~fields[k].dflt.has /\ fields[k].kind.k # "option"}
    IN  IF miss # {}
        THEN MissingValue(fields[CHOOSE k \in miss : \A h \in miss : h <= k].name)
        ELSE Ok([k \in 1..Len(fields) |-> FieldValue(fields, sl, k)])

\* a finish that takes the default of a field before the value it was given
struct_finish_default_first(fields, sl, i, acc) ==
    LET miss == {k \in 1..Len(fields) :
                    ~sl[k].set /\ ~fields[k].dflt.has /\ fields[k].kind.k # "option"}
    IN  IF miss # {}
        THEN MissingValue(fields[CHOOSE k \in miss : \A h \in miss : k <= h].name)
        ELSE Ok([k \in 1..Len(fields) |->
                    IF fields[k].dflt.has THEN fields[k].dflt.v
                    ELSE FieldValue(fields, sl, k)])

\* after the loop, field by field in declaration order: the value seen,
\* else the default, else None for an Option, else missing_field
RECURSIVE struct_finish(_, _, _, _)
struct_finish(fields, sl, i, acc) ==
    IF i > Len(fields) THEN Ok(acc)
    ELSE IF sl[i].set
    THEN struct_finish(fields, sl, i + 1, Append(acc, sl[i].v))
    ELSE IF fields[i].dflt.has
    THEN struct_finish(fields, sl, i + 1, Append(acc, fields[i].dflt.v))
    ELSE IF fields[i].kind.k = "option"
    THEN struct_finish(fields, sl, i + 1, Append(acc, [some |-> FALSE]))
    ELSE MissingValue(fields[i].name)

\* HashMap's visit_map: insert(key, value), a later entry replacing an earlier
map_visit_entry(m, e) ==
    [k \in DOMAIN m \cup {e.name} |-> IF k = e.name THEN e.value ELSE m[k]]

EmptySlots(t) ==
    IF t.shape = "struct" THEN [i \in 1..Len(t.fields) |-> Unset] ELSE <<>>

Pending == [tag |-> "Pending"]

(***************************************************************************)
(* The decode call                                                         *)
(***************************************************************************)
\* the pairs the iterator has not yielded yet
iter == SubSeq(input, pos + 1, Len(input))

\* the pairs of s that the filter lets through, as the engine receives them
RECURSIVE Filtered(_, _)
Filtered(pfx, s) ==
    IF s = <<>> THEN <<>>
    ELSE LET kv == filter_map(pfx, s[1])
         IN  (IF kv.some THEN <<Pair(kv.k, kv.v)>> ELSE <<>>)
             \o Filtered(pfx, Tail(s))

\* the pairs the engine has received so far
passed == Filtered(prefix, SubSeq(input, 1, pos))

\* from_iter / Prefixed::from_iter: Deserializer::new over the pair stream
InitWith(prefixes, targets, inputs) ==
    /\ prefix \in prefixes
    /\ target \in targets
    /\ input \in inputs
    /\ pos = 0
    /\ slots = EmptySlots(target)
    /\ result = Pending

\* MapDeserializer::next_key_seed/next_value_seed under visit_map: the next
\* pair of the stream is visited
next_entry ==
    /\ result = Pending
    /\ NextIndex(prefix, iter) # 0
    /\ LET j == NextIndex(prefix, iter)
           e == Vars_next(filter_map(prefix, iter[j]))
       IN  /\ pos' = pos + j
           /\ IF target.shape = "struct"
              THEN LET r == struct_visit_entry(target.fields, slots, e)
                   IN  /\ slots' = r.slots
                       /\ result' = IF r.err THEN r.error ELSE Pending
              ELSE /\ slots' = map_visit_entry(slots, e)
                   /\ result' = Pending
    /\ UNCHANGED <<prefix, target, input>>

\* the stream is exhausted: visit_map returns the value or missing_field
end_of_entries ==
    /\ result = Pending
    /\ NextIndex(prefix, iter) = 0
    /\ pos' = Len(input)
    /\ result' = IF target.shape = "struct"
                 THEN struct_finish(target.fields, slots, 1, <<>>)
                 ELSE Ok(slots)
    /\ UNCHANGED <<prefix, target, input, slots>>

Next == next_entry \/ end_of_entries

(***************************************************************************)
(* The target types of the tests (src/src/lib.rs, mod tests)               *)
(***************************************************************************)
\* enum Size, rename_all = "lowercase"
Size == KEnum("Size", <<<<"s","m","a","l","l">>, <<"m","e","d","i","u","m">>, <<"l","a","r","g","e">>>>)

\* impl Default for Size
Size_default == [variant |-> <<"m","e","d","i","u","m">>]

\* fn default_kaboom
default_kaboom == 8080

\* struct CustomNewType(u32)
CustomNewType == KNewtype(U32)

\* struct Foo
Foo ==
    Record("Foo",
      << Field(<<"b","a","r">>, KString),
         Field(<<"b","a","z">>, KBool),
         Field(<<"z","o","o","m">>, KOption(U16)),
         Field(<<"d","o","o","m">>, KSeq(U64)),
         FieldDefault(<<"k","a","b","o","o","m">>, U16, default_kaboom),
         FieldDefault(<<"d","e","b","u","g","_","m","o","d","e">>, KBool, FALSE),
         FieldDefault(<<"s","i","z","e">>, Size, Size_default),
         Field(<<"p","r","o","v","i","d","e","d">>, KOption(KString)),
         Field(<<"n","e","w","t","y","p","e">>, CustomNewType) >>)

(***************************************************************************)
(* Bounded inputs                                                          *)
(***************************************************************************)
\* the most pairs an iterable holds
MaxPairs == 5

\* the sequences of at most n elements of S, no element twice
DistinctSeqs(n, S) ==
    UNION { {s \in [1..m -> S] : \A i, j \in 1..m : i # j => s[i] # s[j]}
            : m \in 0..n }

\* the pairs of the tests, with malformed values and other spellings of a key
FooPairs ==
    { Pair(<<"B","A","R">>, <<"t","e","s","t">>),
      Pair(<<"b","a","r">>, <<"b">>),
      Pair(<<"B","A","Z">>, <<"t","r","u","e">>),
      Pair(<<"B","a","z">>, <<"n","o","t","a","b","o","o","l">>),
      Pair(<<"D","O","O","M">>, <<"1",",","2",",","3">>),
      Pair(<<"N","E","W","T","Y","P","E">>, <<"4","2">>),
      Pair(<<"Z","O","O","M">>, <<"7">>),
      Pair(<<"Z","O","O","M">>, <<"x">>),
      Pair(<<"K","A","B","O","O","M">>, <<"1">>) }

\* from_iter::<_, Foo>(input)
Init == InitWith({NoPrefix}, {Foo}, DistinctSeqs(MaxPairs, FooPairs))

Spec == Init /\ [][Next]_vars

(***************************************************************************)
(* One field of every kind: struct Config { size: K }, as the Config of    *)
(* the crate documentation and of examples/optional.rs                     *)
(***************************************************************************)
Config(kind) == Record("Config", <<Field(<<"s","i","z","e">>, kind)>>)

ValKinds ==
    { KBool, U8, U16, U32, U64, I8, I16, I32, I64, F32, F64, KString, Size,
      KOption(U32), KSeq(U64), KSeq(KString), KSeq(KBool), CustomNewType }

ValKeys == { <<"S","I","Z","E">>, <<"S","i","z","e">>, <<"s","i","z","e">> }

ValValues ==
    { <<"t","r","u","e">>,
      <<"n","o","t","a","b","o","o","l">>,
      <<"1">>,
      <<"-","1">>,
      <<"+","7">>,
      <<"3","0","0">>,
      <<"-","1","2","9">>,
      <<>>,
      <<"1",",","2",",","3">>,
      <<"1",",","x",",","y">>,
      <<"1",",",",","2">>,
      <<"1",".","5">>,
      <<"1","e","2">>,
      <<"x">>,
      <<"s","m","a","l","l">>,
      <<"S","m","a","l","l">>,
      <<"S","M","A","L","L">>,
      <<"h","u","g","e">> }

\* the most pairs an iterable holds when one field is decoded
MaxValPairs == 1

\* from_iter::<_, Config>(input), Config with one field of any kind
InitVal ==
    InitWith({NoPrefix}, {Config(kind) : kind \in ValKinds},
             DistinctSeqs(MaxValPairs, {Pair(k, v) : k \in ValKeys, v \in ValValues}))

SpecVal == InitVal /\ [][Next]_vars

(***************************************************************************)
(* Records with a field that is itself a record or a map                   *)
(***************************************************************************)
\* a record to nest: struct Inner { bar: String, baz: bool }
InnerFields == <<Field(<<"b","a","r">>, KString), Field(<<"b","a","z">>, KBool)>>

\* a caller's record with a nested record: struct Outer { inner: Inner }
Outer == Record("Outer", <<Field(<<"i","n","n","e","r">>, KStruct("Inner", InnerFields))>>)

\* examples/prefixed.rs: struct Config { bar: Option<String>, foo: HashMap }
ExampleConfig ==
    Record("Config", <<Field(<<"b","a","r">>, KOption(KString)), Field(<<"f","o","o">>, KMap)>>)

NestedPairs ==
    { Pair(<<"I","N","N","E","R">>, <<"x">>),
      Pair(<<"I","N","N","E","R">>, <<>>),
      Pair(<<"B","A","R">>, <<"t","e","s","t">>),
      Pair(<<"B","A","Z">>, <<"t","r","u","e">>),
      Pair(<<"b","a","z">>, <<"n","o","t","a","b","o","o","l">>),
      Pair(<<"F","O","O">>, <<"x">>) }

\* from_iter::<_, Outer>(input) and from_iter::<_, Config>(input)
InitNested ==
    InitWith({NoPrefix}, {Outer, ExampleConfig}, DistinctSeqs(MaxPairs, NestedPairs))

SpecNested == InitNested /\ [][Next]_vars

(***************************************************************************)
(* Prefixed decoding: prefixed("PRE_").from_iter(input)                    *)
(***************************************************************************)
\* the Config of the crate documentation:
\* struct Config { foo: u16, bar: bool, baz: String, boom: Option<u64> }
DocConfig ==
    Record("Config",
      << Field(<<"f","o","o">>, U16),
         Field(<<"b","a","r">>, KBool),
         Field(<<"b","a","z">>, KString),
         Field(<<"b","o","o","m">>, KOption(U64)) >>)

\* a record with a field whose name starts with the lower-cased prefix
PreConfig ==
    Record("Config",
      << Field(<<"p","r","e","_","f","o","o">>, U16),
         Field(<<"b","a","r">>, KBool) >>)

PrefixedPairs ==
    { Pair(<<"P","R","E","_","F","O","O">>, <<"1">>),
      Pair(<<"P","R","E","_","p","r","e","_","F","O","O">>, <<"5">>),
      Pair(<<"P","R","E","_","f","o","o">>, <<"2">>),
      Pair(<<"F","O","O">>, <<"3">>),
      Pair(<<"P","R","E","_","P","R","E","_","F","O","O">>, <<"4">>),
      Pair(<<"p","r","e","_","B","A","R">>, <<"t","r","u","e">>),
      Pair(<<"P","R","E","_","B","a","r">>, <<"t","r","u","e">>),
      Pair(<<"P","R","E","_","B","A","Z">>, <<"b","a","r">>),
      Pair(<<"P","R","E","_">>, <<"x">>) }

InitPrefixed ==
    InitWith({Prefixed(<<"P","R","E","_">>)}, {StringMap, DocConfig, PreConfig},
             DistinctSeqs(MaxPairs, PrefixedPairs))

SpecPrefixed == InitPrefixed /\ [][Next]_vars

(***************************************************************************)
(* Vocabulary of the properties                                            *)
(***************************************************************************)
Done == result # Pending

IsRecord == target.shape = "struct"

Fields == target.fields

FieldIds == 1..Len(Fields)

\* the pairs of the input the engine receives, in order
Received == IF prefix.some THEN Filtered(prefix, input) ELSE input

\* The input as the properties read it: rc, the received pairs; fo[j], the
\* field whose name is the lower-cased key of received pair j (0: none);
\* dec[j], what the value of pair j decodes to as that field's kind.
View ==
    LET rc == Received
        fo == [j \in 1..Len(rc) |-> FieldIndex(Fields, to_lowercase(rc[j].k))]
    IN  [rc  |-> rc,
         fo  |-> fo,
         dec |-> [j \in 1..Len(rc) |->
                     IF fo[j] = 0 THEN Ok(<<>>)
                     ELSE Val_deserialize(rc[j].k, rc[j].v, Fields[fo[j]].kind)]]

\* the received pairs that name field i
PairsFor(w, i) == {j \in 1..Len(w.rc) : w.fo[j] = i}

\* the received pairs whose value does not decode
Malformed(w) == {j \in 1..Len(w.rc) : ~IsOk(w.dec[j])}

Required(i) == ~Fields[i].dflt.has /\ Fields[i].kind.k # "option"

MissingRequired(w) == {i \in FieldIds : Required(i) /\ PairsFor(w, i) = {}}

Least(S) == CHOOSE x \in S : \A y \in S : x <= y

\* no two received pairs name the same field
NoRepeatedKey(w) ==
    \A j, h \in 1..Len(w.rc) : (j # h /\ w.fo[j] # 0) => w.fo[j] # w.fo[h]

\* the received pairs that are refused: the field was named by an earlier
\* pair, or the value does not decode
RefusedPairs(w) ==
    {j \in 1..Len(w.rc) :
        /\ w.fo[j] # 0
        /\ \/ \E h \in 1..(j - 1) : w.fo[h] = w.fo[j]
           \/ ~IsOk(w.dec[j])}

\* the error of a refused pair
RefusalOf(w, j) ==
    IF \E h \in 1..(j - 1) : w.fo[h] = w.fo[j]
    THEN duplicate_field(Fields[w.fo[j]].name)
    ELSE w.dec[j]

(***************************************************************************)
(* C1: a missing required field                                            *)
(***************************************************************************)
\* C1 as stated: if a required field (no Option, no default) is named by no
\* pair and every pair present carries a valid value, from_iter returns
\* MissingValue of the first such field in declaration order.
C1_MissingValueWheneverAllValid ==
    (Done /\ IsRecord) =>
        LET w == View
            m == MissingRequired(w)
        IN  (m # {} /\ Malformed(w) = {})
                => result = MissingValue(Fields[Least(m)].name)

\* C1 as amended: the same, provided that no two pairs name the same field
\* (a field named again is refused with Custom before the missing fields
\* are looked at).
C1_MissingValue ==
    (Done /\ IsRecord) =>
        LET w == View
            m == MissingRequired(w)
        IN  (m # {} /\ Malformed(w) = {} /\ NoRepeatedKey(w))
                => result = MissingValue(Fields[Least(m)].name)

\* two required fields are missing while two valid pairs name two fields
C1_Witness ==
    /\ Done /\ IsRecord
    /\ LET w == View
       IN  /\ Malformed(w) = {} /\ NoRepeatedKey(w)
           /\ Cardinality(MissingRequired(w)) >= 2
           /\ \E i, k \in FieldIds :
                  i # k /\ PairsFor(w, i) # {} /\ PairsFor(w, k) # {}
    /\ result.tag = "MissingValue"

(***************************************************************************)
(* C3: fields with a default                                               *)
(***************************************************************************)
HasDefault(i) == Fields[i].dflt.has

\* C3: a field with a default is never reported missing; in the record
\* returned it holds the default when no pair names it, and the parsed value
\* of the pair when one does; a pair whose value does not parse is an error,
\* never the default.
C3_Default ==
    (Done /\ IsRecord) =>
        LET w == View
        IN  \A i \in FieldIds : HasDefault(i) =>
                /\ result # MissingValue(Fields[i].name)
                /\ (PairsFor(w, i) \cap Malformed(w) # {}) => result.tag = "Custom"
                /\ IsOk(result) =>
                       IF PairsFor(w, i) = {}
                       THEN result.value[i] = Fields[i].dflt.v
                       ELSE \A j \in PairsFor(w, i) :
                                result.value[i] = w.dec[j].value

\* a record is returned in which one default was used and another field
\* with a default took the value of its pair
C3_Witness ==
    /\ Done /\ IsRecord /\ IsOk(result)
    /\ LET w == View
       IN  /\ \E i \in FieldIds : /\ HasDefault(i) /\ PairsFor(w, i) = {}
                                  /\ result.value[i] = Fields[i].dflt.v
           /\ \E i \in FieldIds : /\ HasDefault(i) /\ PairsFor(w, i) # {}
                                  /\ result.value[i] # Fields[i].dflt.v

(***************************************************************************)
(* C4: optional fields                                                     *)
(***************************************************************************)
IsOption(i) == Fields[i].kind.k = "option" /\ ~HasDefault(i)

\* what the value of received pair j decodes to as the inner kind of field i
DecodedInner(w, j, i) ==
    Val_deserialize(w.rc[j].k, w.rc[j].v, Fields[i].kind.of)

\* C4: an optional field is never reported missing; in the record returned
\* it is None when no pair names it and Some(v) when one does, v being what
\* the inner kind decodes from the pair's value; a value the inner kind
\* cannot parse is an error, never None.
C4_Option ==
    (Done /\ IsRecord) =>
        LET w == View
        IN  \A i \in FieldIds : IsOption(i) =>
                /\ result # MissingValue(Fields[i].name)
                /\ (\E j \in PairsFor(w, i) : ~IsOk(DecodedInner(w, j, i)))
                       => result.tag = "Custom"
                /\ IsOk(result) =>
                       IF PairsFor(w, i) = {}
                       THEN result.value[i] = [some |-> FALSE]
                       ELSE \A j \in PairsFor(w, i) :
                                result.value[i] =
                                    [some |-> TRUE, v |-> DecodedInner(w, j, i).value]

\* a record is returned with one optional field None and another Some
C4_Witness ==
    /\ Done /\ IsRecord /\ IsOk(result)
    /\ LET w == View
       IN  /\ \E i \in FieldIds : /\ IsOption(i) /\ PairsFor(w, i) = {}
                                  /\ result.value[i] = [some |-> FALSE]
           /\ \E i \in FieldIds : /\ IsOption(i) /\ PairsFor(w, i) # {}
                                  /\ result.value[i].some

(***************************************************************************)
(* C9: which error surfaces                                                *)
(***************************************************************************)
\* the fields that would fail: required and missing, or named by a pair
\* whose value does not parse
Failing(w) == MissingRequired(w) \cup {w.fo[j] : j \in Malformed(w)}

\* the errors that belong to field i
ErrorsOf(w, i) ==
    IF PairsFor(w, i) = {} THEN {MissingValue(Fields[i].name)}
    ELSE {w.dec[j] : j \in PairsFor(w, i) \cap Malformed(w)}

\* C9 as stated: when two or more fields would fail, the error returned
\* belongs to the earliest of them in declaration order, whatever the order
\* of the pairs.
C9_DeclarationOrder ==
    (Done /\ IsRecord) =>
        LET w == View
            f == Failing(w)
        IN  Cardinality(f) >= 2 => result \in ErrorsOf(w, Least(f))

\* C9 as amended: the pairs are visited in source order and the first pair
\* refused (a value that does not parse, or a field named again) gives the
\* Custom error returned, even when a required field declared earlier is
\* missing; only when no pair is refused is the result MissingValue of the
\* earliest missing required field in declaration order, or else the record.
C9_SourceOrderThenDeclarationOrder ==
    (Done /\ IsRecord) =>
        LET w == View
            r == RefusedPairs(w)
            m == MissingRequired(w)
        IN  IF r # {}
            THEN result.tag = "Custom" /\ result = RefusalOf(w, Least(r))
            ELSE IF m # {}
            THEN result = MissingValue(Fields[Least(m)].name)
            ELSE IsOk(result)

\* a malformed value is reported although a required field declared before
\* its field is missing and a field declared before it has a malformed
\* value too, later in the input
C9_Witness ==
    /\ Done /\ IsRecord /\ result.tag = "Custom"
    /\ LET w == View
           r == RefusedPairs(w)
       IN  /\ r # {}
           /\ result = w.dec[Least(r)]
           /\ \E m \in MissingRequired(w) : m < w.fo[Least(r)]
           /\ \E j \in Malformed(w) : w.fo[j] < w.fo[Least(r)]

(***************************************************************************)
(* C2: the message of a value that does not parse                          *)
(***************************************************************************)
IsParsedKind(kind) == kind.k \in {"bool", "int", "float"}

\* a boolean, integer or float field, or a sequence of such elements
InC2(kind) == IsParsedKind(kind) \/ (kind.k = "seq" /\ IsParsedKind(kind.of))

\* str::parse of s as a boolean, integer or float kind
ParseAs(kind, s) ==
    CASE kind.k = "bool"  -> parse_bool(s)
      [] kind.k = "int"   -> parse_int(s, kind.signed, kind.bits)
      [] kind.k = "float" -> parse_float(s)

\* the positions of the commas of s, and the n-th of them
Commas(s) == {i \in 1..Len(s) : s[i] = ","}

NthComma(s, n) ==
    CHOOSE i \in Commas(s) : Cardinality({h \in Commas(s) : h < i}) = n - 1

PieceCount(s) == Cardinality(Commas(s)) + 1

\* the n-th comma-separated substring of s
PieceN(s, n) ==
    SubSeq(s, IF n = 1 THEN 1 ELSE NthComma(s, n - 1) + 1,
              IF n = PieceCount(s) THEN Len(s) ELSE NthComma(s, n) - 1)

\* the string that fails to parse: the value, or for a sequence field its
\* first element that does not parse
Offending(kind, v) ==
    IF kind.k = "seq"
    THEN PieceN(v, Least({n \in 1..PieceCount(v) : ~ParseAs(kind.of, PieceN(v, n)).ok}))
    ELSE v

ScalarOf(kind) == IF kind.k = "seq" THEN kind.of ELSE kind

C5_Sequence ==
    (Done /\ IsRecord) =>
        LET w == View
        IN  \A i \in FieldIds : (Fields[i].kind.k = "seq" /\ PairsFor(w, i) # {}) =>
                LET j     == Least(PairsFor(w, i))
                    v     == w.rc[j].v
                    el(n) == Val_deserialize(w.rc[j].k, PieceN(v, n), Fields[i].kind.of)
                    bad   == {n \in 1..PieceCount(v) : ~IsOk(el(n))}
                IN  /\ IsOk(result) =>
                          /\ Len(result.value[i]) = PieceCount(v)
                          /\ \A n \in 1..PieceCount(v) :
                                 result.value[i][n] = el(n).value
                          /\ v = <<>> => result.value[i] = << <<>> >>
                    /\ (bad = {} /\ RefusedPairs(w) = {} /\ MissingRequired(w) = {})
                           => IsOk(result)
                    /\ (bad # {} /\ Least(RefusedPairs(w)) = j)
                           => result = el(Least(bad))

\* "1,2,3" decodes to the three integers 1, 2, 3
C5_Witness ==
    /\ Done /\ IsRecord /\ IsOk(result)
    /\ Len(input) = 1
    /\ input[1].v = <<"1", ",", "2", ",", "3">>
    /\ target.fields[1].kind = KSeq(U64)
    /\ result.value[1] = <<1, 2, 3>>

(***************************************************************************)
(* C6: enumerated variants                                                 *)
(***************************************************************************)
IsVariant(kind, v) == \E n \in 1..Len(kind.variants) : kind.variants[n] = v

\* C6 as stated: a value that equals a variant tag up to letter case decodes
\* to that variant.
C6_CaseInsensitive ==
    (Done /\ IsRecord) =>
        LET w == View
        IN  \A i \in FieldIds :
                (Fields[i].kind.k = "enum" /\ Cardinality(PairsFor(w, i)) = 1) =>
                    LET v == w.rc[Least(PairsFor(w, i))].v
                    IN  IsVariant(Fields[i].kind, to_lowercase(v)) =>
                            /\ IsOk(result)
                            /\ result.value[i] = [variant |-> to_lowercase(v)]

\* C6 as amended: enum decoding is case-sensitive.  A value decodes to a
\* variant only when it equals the variant's tag exactly; every other value,
\* also one that differs from a tag in letter case only, fails with Custom.
C6_CaseSensitive ==
    (Done /\ IsRecord) =>
        LET w == View
        IN  \A i \in FieldIds :
                (Fields[i].kind.k = "enum" /\ PairsFor(w, i) # {}) =>
                    LET v == w.rc[Least(PairsFor(w, i))].v
                    IN  IF IsVariant(Fields[i].kind, v)
                        THEN /\ IsOk(result) => result.value[i] = [variant |-> v]
                             /\ (RefusedPairs(w) = {} /\ MissingRequired(w) = {})
                                    => IsOk(result)
                        ELSE result.tag = "Custom"

\* a value that differs from a tag in letter case only is refused
C6_Witness ==
    /\ Done /\ IsRecord /\ result.tag = "Custom"
    /\ LET w == View
       IN  \E i \in FieldIds :
               /\ Fields[i].kind.k = "enum" /\ PairsFor(w, i) # {}
               /\ LET v == w.rc[Least(PairsFor(w, i))].v
                  IN  /\ v # to_lowercase(v)
                      /\ IsVariant(Fields[i].kind, to_lowercase(v))
                      /\ result = unknown_variant(v, Fields[i].kind.variants)

(***************************************************************************)
(* C7: the prefix filter                                                   *)
(***************************************************************************)
\* k with its first Len(p) characters removed
WithoutPrefix(k, p) == SubSeq(k, Len(p) + 1, Len(k))

\* the pairs of s whose key starts with p, the prefix removed once
RECURSIVE Retained(_, _)
Retained(p, s) ==
    IF s = <<>> THEN <<>>
    ELSE (IF Len(s[1].k) >= Len(p) /\ \A n \in 1..Len(p) : s[1].k[n] = p[n]
          THEN <<Pair(WithoutPrefix(s[1].k, p), s[1].v)>>
          ELSE <<>>)
         \o Retained(p, Tail(s))

\* C7: Prefixed::from_iter passes to the engine exactly the pairs whose key
\* starts with the prefix, in their order, with the prefix removed once (the
\* remainder untouched even if it starts with the prefix again) and the
\* value unchanged; the other pairs are dropped.
C7_PrefixRemovedOnce ==
    prefix.some => passed = Retained(prefix.p, SubSeq(input, 1, pos))

(***************************************************************************)
(* C8: lower-cased keys                                                    *)
(***************************************************************************)
\* the pairs the claim has the engine receive
Kept == IF prefix.some THEN Retained(prefix.p, input) ELSE input

\* C8: keys are lower-cased before they are compared with field names, so a
\* pair names the field that its lower-cased key spells; into a string map
\* with pairwise distinct normalised keys every retained pair gives one
\* entry, from its lower-cased, prefix-stripped key to its value.
C8_LowerCasedKeys ==
    /\ IsRecord =>
           \A j \in 1..Len(passed) : \A i \in FieldIds :
               (to_lowercase(passed[j].k) = Fields[i].name)
                   => (slots[i].set \/ result.tag = "Custom")
    /\ (Done /\ ~IsRecord) =>
           LET kept == Kept
               key(j) == to_lowercase(kept[j].k)
           IN  (\A j, h \in 1..Len(kept) : j # h => key(j) # key(h)) =>
                   /\ IsOk(result)
                   /\ DOMAIN result.value = {key(j) : j \in 1..Len(kept)}
                   /\ \A j \in 1..Len(kept) : result.value[key(j)] = kept[j].v

(***************************************************************************)
(* C10: a field whose type is a record                                     *)
(***************************************************************************)
IsNested(i) == Fields[i].kind.k = "struct"

\* every required field of the record nested in field i is named by a
\* received pair whose value is valid for it
NestedPairsValid(w, i) ==
    \A n \in 1..Len(Fields[i].kind.fields) :
        LET f == Fields[i].kind.fields[n]
        IN  (~f.dflt.has /\ f.kind.k # "option") =>
                \E j \in 1..Len(w.rc) :
                    /\ to_lowercase(w.rc[j].k) = f.name
                    /\ IsOk(Val_deserialize(w.rc[j].k, w.rc[j].v, f.kind))

\* C10 as stated: when the source holds a pair for the outer field's key and
\* valid pairs for the nested record's required fields, decode succeeds.
C10_NestedFromFlatMap ==
    (Done /\ IsRecord) =>
        LET w == View
        IN  \A i \in FieldIds :
                (IsNested(i) /\ PairsFor(w, i) # {} /\ NestedPairsValid(w, i))
                    => IsOk(result)

\* C10 as amended: a field whose type is a record is never decoded.  Its
\* value is handed to the nested record's visitor as a string, so a pair for
\* the field's key makes decode fail with Custom (invalid type: string,
\* expected struct), whatever pairs the source holds for the nested record's
\* fields, which are never looked up; without such a pair the field is
\* missing.
C10_NestedNeverDecoded ==
    (Done /\ IsRecord) =>
        LET w == View
        IN  \A i \in FieldIds : IsNested(i) =>
                /\ ~IsOk(result)
                /\ PairsFor(w, i) # {} =>
                       LET j == Least(PairsFor(w, i))
                       IN  /\ result.tag = "Custom"
                           /\ Least(RefusedPairs(w)) = j =>
                                  result = invalid_type(w.rc[j].v,
                                               "struct " \o Fields[i].kind.name)
                /\ (PairsFor(w, i) = {} /\ RefusedPairs(w) = {})
                       => result.tag = "MissingValue"

\* decode fails although the outer field and all nested fields have pairs
C10_Witness ==
    /\ Done /\ IsRecord /\ result.tag = "Custom"
    /\ LET w == View
       IN  \E i \in FieldIds :
               IsNested(i) /\ PairsFor(w, i) # {} /\ NestedPairsValid(w, i)

(***************************************************************************)
(* C11: two pairs for one field                                            *)
(***************************************************************************)
\* the pairs the prefix filter of C7 retains among the first n of the input
KeptUpTo(n) ==
    IF prefix.some THEN Retained(prefix.p, SubSeq(input, 1, n))
    ELSE SubSeq(input, 1, n)

\* C11: when two pairs have keys that are equal after prefix stripping and
\* lower-casing and name a field of the target record, no record is
\* produced: decode fails with Custom, and when every pair before the second
\* of the two is accepted the error is duplicate field of that field,
\* returned as soon as the second pair is reached.
C11_DuplicateField ==
    (Done /\ IsRecord) =>
        LET kept == Kept
            fo == [j \in 1..Len(kept) |->
                      FieldIndex(Fields, to_lowercase(kept[j].k))]
            second == {k \in 1..Len(kept) :
                          fo[k] # 0 /\ \E j \in 1..(k - 1) : fo[j] = fo[k]}
            valid(j) == \/ fo[j] = 0
                        \/ IsOk(Val_deserialize(kept[j].k, kept[j].v,
                                                Fields[fo[j]].kind))
        IN  second # {} =>
                /\ result.tag = "Custom"
                /\ LET k == Least(second)
                   IN  (\A j \in 1..(k - 1) : valid(j)) =>
                           /\ result = duplicate_field(Fields[fo[k]].name)
                           /\ Len(KeptUpTo(pos)) = k

=============================================================================
